---- MODULE Spec2Model ----
(***************************************************************************)
(* Model of SW_Metadata_Extract.py: SolidWorksMetadataReader and main.     *)
(* The SolidWorks COM host is the environment: every host call either      *)
(* throws or returns a value taken from the opened document's record.      *)
(***************************************************************************)
EXTENDS Integers, Sequences, FiniteSets, TLC

\* ---------------------------------------------------------------- bounds
\* host calls that may throw over the life of one reader
MaxFaults == 2
\* entries (main or direct read_metadata calls) made on one reader
MaxRuns == 2

\* ------------------------------------------------------- python values
\* A value returned by the host: None, a str, a tuple of str, or a number
\* (numbers are kept in hundredths: 785 stands for 7.85).
PyNone == [t |-> "none", s |-> "", items |-> <<>>, n |-> 0]
PyStr(x) == [t |-> "str", s |-> x, items |-> <<>>, n |-> 0]
PyTuple(xs) == [t |-> "tuple", s |-> "", items |-> xs, n |-> 0]
PyNum(k) == [t |-> "num", s |-> "", items |-> <<>>, n |-> k]

\* python truthiness, as used by every "if value:" of the source
Truthy(v) ==
  CASE v.t = "none" -> FALSE
    [] v.t = "str" -> v.s # ""
    [] v.t = "tuple" -> v.items # <<>>
    [] OTHER -> v.n # 0

Digit(k) == ToString(k)

\* str(x) of a float given in hundredths: 785 -> "7.85", 780 -> "7.8", 0 -> "0.0"
StrFloat(k) ==
  LET ip == k \div 100
      fr == k % 100
  IN ToString(ip) \o "." \o
     (IF fr % 10 = 0 THEN Digit(fr \div 10) ELSE Digit(fr \div 10) \o Digit(fr % 10))

\* f"{x:.6f}" of a float given in hundredths: 123 -> "1.230000"
Format6f(k) ==
  ToString(k \div 100) \o "." \o Digit((k % 100) \div 10) \o Digit(k % 10) \o "0000"

\* str(x)
Str(v) ==
  CASE v.t = "none" -> "None"
    [] v.t = "str" -> v.s
    [] v.t = "num" -> StrFloat(v.n)
    [] OTHER -> "(tuple)"

\* the normalisation "str(x[0]) if len(x) > 0 else '' / str(x)" applied to
\* title, path and configuration name
Scalar(v) ==
  IF v.t = "tuple"
  THEN (IF Len(v.items) > 0 THEN v.items[1] ELSE "")
  ELSE Str(v)

\* ----------------------------------------------------------- exceptions
\* Handler "bare" is "except:", "Exception" is "except Exception"; every
\* exception the host or the code raises here derives from Exception.
ExcNone == "none"
Catches(handler, exc) == handler \in {"bare", "Exception"} \/ handler = exc

\* ------------------------------------------------------------ metadata
EmptyMap == [k \in {} |-> ""]
Put(md, k, v) == [x \in DOMAIN md \cup {k} |-> IF x = k THEN v ELSE md[x]]

\* ------------------------------------------------------------- file paths
\* A path is its absoluteness and the extension os.path.splitext yields.
Extensions == {".sldprt", ".SLDASM", ".slddrw", ".txt"}
FilePaths ==
  [abs : {FALSE}, ext : Extensions] \cup {[abs |-> TRUE, ext |-> ".sldprt"]}
NoPath == [abs |-> FALSE, ext |-> ""]

\* os.path.abspath
Abspath(p) == [p EXCEPT !.abs = TRUE]
\* os.path.splitext(p)[1]
Splitext(p) == p.ext
\* str.lower on the extensions in use
Lower(e) ==
  CASE e = ".SLDASM" -> ".sldasm"
    [] e = ".SLDPRT" -> ".sldprt"
    [] e = ".SLDDRW" -> ".slddrw"
    [] OTHER -> e

\* doc_type of lines 47-55; 0 stands for the ValueError branch
DocTypeOf(file_ext) ==
  IF file_ext = ".sldprt" THEN 1
  ELSE IF file_ext = ".sldasm" THEN 2
  ELSE IF file_ext = ".slddrw" THEN 3
  ELSE 0

\* main's allow-list
valid_extensions == {".sldprt", ".sldasm", ".slddrw"}

\* ------------------------------------------------------ host documents
\* What the host answers for one opened document.  namesShape is the shape of
\* GetNames(): "none", "list" (a non-tuple sequence of names), "wrapped" (a
\* tuple whose first item is the sequence of names) or "tuple" (a tuple of
\* names).  valShape is the shape of Get(name): "scalar" (one str), "pair"
\* (raw, evaluated), "rawless" ("", evaluated).  callable tells whether
\* GetTitle, GetPathName, Name and GetConfigurationNames come back as methods
\* or as already-evaluated attribute values.  material is the
\* MaterialPropertyValues sequence, in hundredths.
SummarySlots == <<0, 1, 2, 3, 4, 5, 6, 9, 10, 11>>

summary_info_fields(field_id) ==
  CASE field_id = 0 -> "Title"
    [] field_id = 1 -> "Subject"
    [] field_id = 2 -> "Author"
    [] field_id = 3 -> "Keywords"
    [] field_id = 4 -> "Comments"
    [] field_id = 5 -> "LastSavedBy"
    [] field_id = 6 -> "RevisionNumber"
    [] field_id = 9 -> "CreatedDate"
    [] field_id = 10 -> "ModifiedDate"
    [] OTHER -> "LastPrintedDate"

NoMass == [present |-> FALSE, Mass |-> PyNone, Volume |-> PyNone, SurfaceArea |-> PyNone]

\* a part or assembly with two evaluated custom properties and every field set
DocFull ==
  [ hasPropMgr |-> TRUE, namesShape |-> "wrapped", names |-> <<"Weight", "FileName">>,
    valShape |-> "pair", filledSlots |-> {0, 1, 2, 3, 4, 5, 6, 9, 10, 11}, callable |-> TRUE,
    title |-> PyStr("bracket.SLDPRT"), path |-> PyStr("C:/cad/bracket.SLDPRT"),
    hasConfigMgr |-> TRUE, hasActiveConfig |-> TRUE, configName |-> PyStr("Default"),
    configNames |-> PyTuple(<<"Default", "Long">>),
    material |-> <<785, 30>>,
    mass |-> [present |-> TRUE, Mass |-> PyNum(123), Volume |-> PyNum(45),
              SurfaceArea |-> PyNum(600)] ]

\* a document with no custom properties, empty summary slots and no mass
DocBlank ==
  [ hasPropMgr |-> TRUE, namesShape |-> "none", names |-> <<>>,
    valShape |-> "scalar", filledSlots |-> {}, callable |-> TRUE,
    title |-> PyTuple(<<"blank.SLDPRT">>), path |-> PyStr(""),
    hasConfigMgr |-> TRUE, hasActiveConfig |-> FALSE, configName |-> PyNone,
    configNames |-> PyNone,
    material |-> <<0, 30>>,
    mass |-> NoMass ]

\* a host that hands back attribute values instead of methods
DocAttr ==
  [ hasPropMgr |-> TRUE, namesShape |-> "list", names |-> <<"Weight">>,
    valShape |-> "rawless", filledSlots |-> {0, 6}, callable |-> FALSE,
    title |-> PyStr("plate.SLDPRT"), path |-> PyTuple(<<"C:/cad/plate.SLDPRT">>),
    hasConfigMgr |-> TRUE, hasActiveConfig |-> TRUE, configName |-> PyTuple(<<"Default">>),
    configNames |-> PyTuple(<<"Default">>),
    material |-> <<>>,
    mass |-> [present |-> TRUE, Mass |-> PyNum(250), Volume |-> PyNone,
              SurfaceArea |-> PyNone] ]

\* a host whose GetNames() is a plain tuple of names
DocTuple ==
  [ hasPropMgr |-> TRUE, namesShape |-> "tuple", names |-> <<"Qty", "Weight">>,
    valShape |-> "scalar", filledSlots |-> {2}, callable |-> TRUE,
    title |-> PyStr("rod.SLDPRT"), path |-> PyStr("C:/cad/rod.SLDPRT"),
    hasConfigMgr |-> FALSE, hasActiveConfig |-> FALSE, configName |-> PyNone,
    configNames |-> PyNone,
    material |-> <<780>>,
    mass |-> NoMass ]

Documents == <<DocFull, DocBlank, DocAttr, DocTuple>>
DocIds == 1 .. Len(Documents)
\* sw_model = None
NoModel == 0

\* iterating a str yields its characters
Chars(name) ==
  CASE name = "Qty" -> <<"Q", "t", "y">>
    [] OTHER -> <<>>

RawValue(name) ==
  CASE name = "Weight" -> "3"
    [] name = "FileName" -> "old.SLDPRT"
    [] name = "Qty" -> "2"
    [] OTHER -> ""

EvaluatedValue(name) ==
  CASE name = "Weight" -> "3.000kg"
    [] name = "FileName" -> "new.SLDPRT"
    [] name = "Qty" -> "2pcs"
    [] OTHER -> ""

InSeq(x, sq) == \E i \in 1 .. Len(sq) : sq[i] = x

\* what the host's prop_manager.Get(name) returns for document d
HostGet(d, name) ==
  IF ~InSeq(name, d.names) THEN PyStr("")
  ELSE CASE d.valShape = "scalar" -> PyStr(RawValue(name))
         [] d.valShape = "pair" -> PyTuple(<<RawValue(name), EvaluatedValue(name)>>)
         [] OTHER -> PyTuple(<<"", EvaluatedValue(name)>>)

\* what the host's SummaryInfo(field_id) returns for document d
HostSummary(d, field_id) ==
  IF field_id \in d.filledSlots THEN PyStr("v" \o ToString(field_id)) ELSE PyStr("")

\* ------------------------------------------------------------ host calls
\* One call on the host: the operation, the part of the reader that issued it
\* and, where they apply, the path and type code or the title passed.
HostCall(op, by, p, t, title) ==
  [op |-> op, by |-> by, path |-> p, type |-> t, title |-> title]
Call(op) == HostCall(op, "read", NoPath, 0, "")
ConnectCall(op) == HostCall(op, "connect", NoPath, 0, "")
OpenCall(op, p, t) == HostCall(op, "open", p, t, "")
CleanupCall(op, title) == HostCall(op, "cleanup", NoPath, 0, title)

\* the except clause guarding each try block
AttachHandler == "bare"
ConnectHandler == "Exception"
\* an open guarded by "except ValueError" only
OpenHandlerNarrow == "ValueError"
OpenHandler == "bare"
PropHandler == "Exception"
CustomStepHandler == "Exception"
\* a summary read guarded by "except ValueError" only
SummaryHandlerNarrow == "ValueError"
SummaryHandler == "bare"
FilePropsHandler == "Exception"
ConfigHandler == "Exception"
MaterialHandler == "Exception"
MassHandler == "Exception"
OuterHandler == "Exception"
\* a cleanup guarded by "except ValueError" only
CleanupHandlerNarrow == "ValueError"
CleanupHandler == "Exception"

\* what is left of exception exc once handler has had its say
After(handler, exc) == IF Catches(handler, exc) THEN ExcNone ELSE exc

\* A step's outcome: the metadata, the host calls issued, the exception that
\* leaves the step and the call sites that threw.
Outcome(md, log, exc, thrown) == [md |-> md, log |-> log, exc |-> exc, thrown |-> thrown]

\* ------------------------------------------------- custom properties
\* a custom property stored under its bare name
CustomKeyBare(prop_name) == prop_name
CustomKey(prop_name) == "Custom_" \o prop_name

\* lines 97-101
StoreProperty(md, prop_name, val_out) ==
  IF Truthy(val_out)
  THEN IF val_out.t = "tuple" /\ Len(val_out.items) > 0
       THEN Put(md, CustomKey(prop_name),
                IF val_out.items[1] # "" THEN val_out.items[1] ELSE "")
       ELSE Put(md, CustomKey(prop_name), Str(val_out))
  ELSE md

\* prop_names of lines 86-90
PropNames(d) ==
  CASE d.namesShape = "none" -> <<>>
    [] d.namesShape = "tuple" -> (IF Len(d.names) > 0 THEN Chars(d.names[1]) ELSE <<>>)
    [] OTHER -> d.names

GetSite(prop_name) == "Get:" \o prop_name

\* the for loop of lines 93-104, from the i-th name on
RECURSIVE PropLoop(_, _, _, _, _)
PropLoop(d, prop_names, i, md, F) ==
  IF i > Len(prop_names) THEN Outcome(md, <<>>, ExcNone, {})
  ELSE LET prop_name == prop_names[i]
           site == GetSite(prop_name)
       IN IF site \in F
          THEN IF Catches(PropHandler, "com_error")
               THEN LET rest == PropLoop(d, prop_names, i + 1, md, F)
                    IN Outcome(rest.md, <<Call("Get")>> \o rest.log, rest.exc,
                               rest.thrown \cup {site})
               ELSE Outcome(md, <<Call("Get")>>, "com_error", {site})
          ELSE LET rest == PropLoop(d, prop_names, i + 1,
                                    StoreProperty(md, prop_name, HostGet(d, prop_name)), F)
               IN Outcome(rest.md, <<Call("Get")>> \o rest.log, rest.exc, rest.thrown)

\* lines 79-106
CustomProperties(d, md, F) ==
  LET body ==
        IF "CustomPropertyManager" \in F
        THEN Outcome(md, <<Call("CustomPropertyManager")>>, "com_error",
                     {"CustomPropertyManager"})
        ELSE IF ~d.hasPropMgr
        THEN Outcome(md, <<Call("CustomPropertyManager")>>, ExcNone, {})
        ELSE IF "GetNames" \in F
        THEN Outcome(md, <<Call("CustomPropertyManager"), Call("GetNames")>>,
                     "com_error", {"GetNames"})
        ELSE LET r == PropLoop(d, PropNames(d), 1, md, F)
             IN Outcome(r.md, <<Call("CustomPropertyManager"), Call("GetNames")>> \o r.log,
                        r.exc, r.thrown)
  IN Outcome(body.md, body.log, After(CustomStepHandler, body.exc), body.thrown)

\* ------------------------------------------------------ summary info
SummaryKey(field_id) == "Summary_" \o summary_info_fields(field_id)
SummarySite(field_id) == "SummaryInfo:" \o ToString(field_id)

\* the for loop of lines 122-128, from the i-th slot on
RECURSIVE SummaryLoop(_, _, _, _)
SummaryLoop(d, i, md, F) ==
  IF i > Len(SummarySlots) THEN Outcome(md, <<>>, ExcNone, {})
  ELSE LET field_id == SummarySlots[i]
           site == SummarySite(field_id)
       IN IF site \in F
          THEN IF Catches(SummaryHandler, "com_error")
               THEN LET rest == SummaryLoop(d, i + 1, md, F)
                    IN Outcome(rest.md, <<Call("SummaryInfo")>> \o rest.log, rest.exc,
                               rest.thrown \cup {site})
               ELSE Outcome(md, <<Call("SummaryInfo")>>, "com_error", {site})
          ELSE LET value == HostSummary(d, field_id)
                   rest == SummaryLoop(d, i + 1,
                             IF Truthy(value) THEN Put(md, SummaryKey(field_id), Str(value))
                             ELSE md, F)
               IN Outcome(rest.md, <<Call("SummaryInfo")>> \o rest.log, rest.exc, rest.thrown)

SummaryInformation(d, md, F) == SummaryLoop(d, 1, md, F)

\* ---------------------------------------------------- file properties
\* lines 131-148
FileProperties(d, md, F) ==
  LET md1 == IF Truthy(d.title) THEN Put(md, "FileName", Scalar(d.title)) ELSE md
      body ==
        IF "GetTitle" \in F
        THEN Outcome(md, <<Call("GetTitle")>>, "com_error", {"GetTitle"})
        ELSE IF "GetPathName" \in F
        THEN Outcome(md1, <<Call("GetTitle"), Call("GetPathName")>>, "com_error",
                     {"GetPathName"})
        ELSE Outcome(IF Truthy(d.path) THEN Put(md1, "FilePath", Scalar(d.path)) ELSE md1,
                     <<Call("GetTitle"), Call("GetPathName")>>, ExcNone, {})
  IN Outcome(body.md, body.log, After(FilePropsHandler, body.exc), body.thrown)

\* ------------------------------------------------------ configuration
\* len(x) of a host value
PyLen(v) == IF v.t = "tuple" THEN Len(v.items) ELSE Len(v.s)

\* lines 151-169
ConfigurationInfo(d, md, F) ==
  LET md1 == IF Truthy(d.configName)
             THEN Put(md, "ActiveConfiguration", Scalar(d.configName)) ELSE md
      md2 == IF Truthy(d.configNames)
             THEN Put(md1, "ConfigurationCount", ToString(PyLen(d.configNames))) ELSE md1
      c1 == <<Call("ConfigurationManager")>>
      c2 == c1 \o <<Call("ActiveConfiguration")>>
      c3 == c2 \o <<Call("Name")>>
      c4 == c3 \o <<Call("GetConfigurationNames")>>
      body ==
        IF "ConfigurationManager" \in F
        THEN Outcome(md, c1, "com_error", {"ConfigurationManager"})
        ELSE IF ~d.hasConfigMgr THEN Outcome(md, c1, ExcNone, {})
        ELSE IF "ActiveConfiguration" \in F
        THEN Outcome(md, c2, "com_error", {"ActiveConfiguration"})
        ELSE IF ~d.hasActiveConfig THEN Outcome(md, c2, ExcNone, {})
        ELSE IF "Name" \in F THEN Outcome(md, c3, "com_error", {"Name"})
        ELSE IF "GetConfigurationNames" \in F
        THEN Outcome(md1, c4, "com_error", {"GetConfigurationNames"})
        ELSE Outcome(md2, c4, ExcNone, {})
  IN Outcome(body.md, body.log, After(ConfigHandler, body.exc), body.thrown)

\* ------------------------------------------------------------ material
\* the guard of line 172
IsPart(doc_type) == doc_type = 1

\* line 177
DensityText(density) == IF density # 0 THEN StrFloat(density) ELSE ""

\* lines 172-179
MaterialInfo(d, doc_type, md, F) ==
  IF ~IsPart(doc_type) THEN Outcome(md, <<>>, ExcNone, {})
  ELSE LET body ==
             IF "MaterialPropertyValues" \in F
             THEN Outcome(md, <<Call("MaterialPropertyValues")>>, "com_error",
                          {"MaterialPropertyValues"})
             ELSE Outcome(IF Len(d.material) > 0
                          THEN Put(md, "MaterialDensity", DensityText(d.material[1]))
                          ELSE md,
                          <<Call("MaterialPropertyValues")>>, ExcNone, {})
       IN Outcome(body.md, body.log, After(MaterialHandler, body.exc), body.thrown)

\* ------------------------------------------------------ mass properties
PutNumber(md, k, v) == IF v.t = "none" THEN md ELSE Put(md, k, Format6f(v.n))

\* lines 182-196
MassProperties(d, md, F) ==
  LET body ==
        IF "CreateMassProperty" \in F
        THEN Outcome(md, <<Call("CreateMassProperty")>>, "com_error", {"CreateMassProperty"})
        ELSE IF ~d.mass.present THEN Outcome(md, <<Call("CreateMassProperty")>>, ExcNone, {})
        ELSE IF "getattr" \in F
        THEN Outcome(md, <<Call("CreateMassProperty"), Call("getattr")>>, "com_error",
                     {"getattr"})
        ELSE Outcome(PutNumber(PutNumber(PutNumber(md, "Mass", d.mass.Mass),
                                         "Volume", d.mass.Volume),
                               "SurfaceArea", d.mass.SurfaceArea),
                     <<Call("CreateMassProperty"), Call("getattr")>>, ExcNone, {})
  IN Outcome(body.md, body.log, After(MassHandler, body.exc), body.thrown)

\* --------------------------------------------------------- call sites
SeqToSet(sq) == {sq[i] : i \in 1 .. Len(sq)}

CustomSites(d) ==
  {"CustomPropertyManager", "GetNames"} \cup {GetSite(n) : n \in SeqToSet(PropNames(d))}
\* the slots whose SummaryInfo call the host may fail: the first, one in the
\* middle (the revision number) and the last
ThrowingSlots == {0, 6, 11}
SummarySites == {SummarySite(field_id) : field_id \in ThrowingSlots}
FilePropsSites == {"GetTitle", "GetPathName"}
ConfigSites == {"ConfigurationManager", "ActiveConfiguration", "Name", "GetConfigurationNames"}
MaterialSites == {"MaterialPropertyValues"}
MassSites == {"CreateMassProperty", "getattr"}

\* the subsets of sites with at most k members
UpTo(sites, k) == {F \in SUBSET sites : Cardinality(F) <= k}

\* ------------------------------------------------------------ connection
ConnectSites == {"GetActiveObject", "Dispatch", "Visible"}

\* lines 13-32: ok is the value returned, app the new self.sw_app
ConnectToSolidworks(app, F) ==
  LET attach ==
        IF "GetActiveObject" \notin F
        THEN [app |-> "attached", log |-> <<ConnectCall("GetActiveObject")>>,
              exc |-> ExcNone, thrown |-> {}]
        ELSE IF ~Catches(AttachHandler, "com_error")
        THEN [app |-> app, log |-> <<ConnectCall("GetActiveObject")>>,
              exc |-> "com_error", thrown |-> {"GetActiveObject"}]
        ELSE IF "Dispatch" \in F
        THEN [app |-> app, log |-> <<ConnectCall("GetActiveObject"), ConnectCall("Dispatch")>>,
              exc |-> "com_error", thrown |-> {"GetActiveObject", "Dispatch"}]
        ELSE [app |-> "spawned",
              log |-> <<ConnectCall("GetActiveObject"), ConnectCall("Dispatch")>>,
              exc |-> ExcNone, thrown |-> {"GetActiveObject"}]
      body ==
        IF attach.exc # ExcNone THEN attach
        ELSE IF "Visible" \in F
        THEN [app |-> attach.app, log |-> attach.log \o <<ConnectCall("Visible")>>,
              exc |-> "com_error", thrown |-> attach.thrown \cup {"Visible"}]
        ELSE [app |-> attach.app, log |-> attach.log \o <<ConnectCall("Visible")>>,
              exc |-> ExcNone, thrown |-> attach.thrown]
  IN [ok |-> body.exc = ExcNone, app |-> body.app, log |-> body.log,
      exc |-> After(ConnectHandler, body.exc), thrown |-> body.thrown]

\* ----------------------------------------------------------------- open
OpenSites == {"OpenDoc", "OpenDoc6"}

\* lines 60-74: h is the handle the answering open call returns (NoModel for
\* none); model is the new self.sw_model
OpenDocument(model, p, t, h, F) ==
  LET first == <<OpenCall("OpenDoc", p, t)>>
      both == first \o <<OpenCall("OpenDoc6", p, t)>>
      body ==
        IF "OpenDoc" \notin F
        THEN [model |-> h, log |-> first, exc |-> ExcNone, thrown |-> {}]
        ELSE IF ~Catches(OpenHandler, "com_error")
        THEN [model |-> model, log |-> first, exc |-> "com_error", thrown |-> {"OpenDoc"}]
        ELSE IF "OpenDoc6" \in F
        THEN [model |-> model, log |-> both, exc |-> "com_error",
              thrown |-> {"OpenDoc", "OpenDoc6"}]
        ELSE [model |-> h, log |-> both, exc |-> ExcNone, thrown |-> {"OpenDoc"}]
  IN [model |-> body.model, log |-> body.log, thrown |-> body.thrown,
      returned |-> body.exc = ExcNone /\ h # NoModel,
      exc |-> IF body.exc = ExcNone /\ body.model = NoModel THEN "Exception" ELSE body.exc]

\* -------------------------------------------------------------- cleanup
CleanupSites == {"GetTitle()", "CloseDoc"}

\* lines 212-213
CleanupTitle(doc_title) ==
  IF doc_title.t = "tuple"
  THEN (IF Len(doc_title.items) > 0 THEN doc_title.items[1] ELSE "")
  ELSE doc_title.s

\* the documents a CloseDoc(title) closes in the host
ClosedBy(title) == {i \in DocIds : Scalar(Documents[i].title) = title}

\* lines 206-225: model, app are the new self.sw_model, self.sw_app; closed
\* the documents the host closed
Cleanup(model, app, F) ==
  LET d == Documents[model]
      title == CleanupTitle(d.title)
      release == IF app # "None" THEN "None" ELSE app
      body ==
        IF model = NoModel
        THEN [model |-> model, app |-> release, log |-> <<>>, exc |-> ExcNone,
              thrown |-> {}, closed |-> {}]
        ELSE IF "GetTitle()" \in F
        THEN [model |-> model, app |-> app, log |-> <<CleanupCall("GetTitle", "")>>,
              exc |-> "com_error", thrown |-> {"GetTitle()"}, closed |-> {}]
        ELSE IF ~d.callable
        THEN [model |-> model, app |-> app, log |-> <<CleanupCall("GetTitle", "")>>,
              exc |-> "TypeError", thrown |-> {}, closed |-> {}]
        ELSE IF "CloseDoc" \in F
        THEN [model |-> model, app |-> app,
              log |-> <<CleanupCall("GetTitle", ""), CleanupCall("CloseDoc", title)>>,
              exc |-> "com_error", thrown |-> {"CloseDoc"}, closed |-> {}]
        ELSE [model |-> NoModel, app |-> release,
              log |-> <<CleanupCall("GetTitle", ""), CleanupCall("CloseDoc", title)>>,
              exc |-> ExcNone, thrown |-> {}, closed |-> ClosedBy(title)]
  IN [model |-> body.model, app |-> body.app, log |-> body.log, thrown |-> body.thrown,
      closed |-> body.closed, exc |-> After(CleanupHandler, body.exc)]

\* ================================================================ state
VARIABLES
  pc,          \* where the current entry stands: idle, connect, classify, open,
               \* custom, summary, fileprops, config, material, mass, cleanup, done
  entry,       \* "main" or "direct" (read_metadata called on the reader)
  report,      \* what the entry ended with
  file_path,   \* the file_path local of read_metadata
  doc_type,    \* the doc_type local of read_metadata
  metadata,    \* the metadata local of read_metadata; the value returned at done
  sw_app,      \* self.sw_app: "None", "attached" or "spawned"
  sw_model,    \* self.sw_model: NoModel or the document the handle stands for
  pending,     \* the exception travelling through the finally clause
  raised,      \* an exception left read_metadata
  calls,       \* the calls this entry issued on the host, in order
  hostOpen,    \* the documents open in the host
  cleanups,    \* the calls of cleanup in this entry
  opened,      \* the document an open call of this entry returned, or NoModel
  thrownSites, \* the call sites that threw in this entry
  faults,      \* the host calls that threw so far
  runs         \* the entries made so far

vars == <<pc, entry, report, file_path, doc_type, metadata, sw_app, sw_model, pending,
          raised, calls, hostOpen, cleanups, opened, thrownSites, faults, runs>>

reader == <<sw_app, sw_model>>

Init ==
  /\ pc = "idle"
  /\ entry = "none"
  /\ report = "none"
  /\ file_path = NoPath
  /\ doc_type = 0
  /\ metadata = EmptyMap
  /\ sw_app = "None"
  /\ sw_model = NoModel
  /\ pending = ExcNone
  /\ raised = FALSE
  /\ calls = <<>>
  /\ hostOpen = {}
  /\ cleanups = 0
  /\ opened = NoModel
  /\ thrownSites = {}
  /\ faults = 0
  /\ runs = 0

Budget == MaxFaults - faults

\* a fresh entry: the locals and the per-entry history start over
Begin(who, p) ==
  /\ pc \in {"idle", "done"}
  /\ runs < MaxRuns
  /\ runs' = runs + 1
  /\ entry' = who
  /\ file_path' = p
  /\ doc_type' = 0
  /\ metadata' = EmptyMap
  /\ pending' = ExcNone
  /\ raised' = FALSE
  /\ calls' = <<>>
  /\ cleanups' = 0
  /\ opened' = NoModel
  /\ thrownSites' = {}
  /\ UNCHANGED <<hostOpen, faults>>

\* lines 227-251: main up to the call of read_metadata on a new reader
Main ==
  \E argc \in 1 .. 3, p \in FilePaths, exists \in BOOLEAN :
    /\ Begin("main", p)
    /\ IF argc # 2
       THEN pc' = "done" /\ report' = "usage" /\ UNCHANGED reader
       ELSE IF ~exists
       THEN pc' = "done" /\ report' = "not found" /\ UNCHANGED reader
       ELSE IF Lower(Splitext(p)) \notin valid_extensions
       THEN pc' = "done" /\ report' = "unsupported" /\ UNCHANGED reader
       ELSE pc' = "connect" /\ report' = "none" /\ sw_app' = "None" /\ sw_model' = NoModel

\* line 34-36: read_metadata called on the reader as it stands
ReadMetadata ==
  \E p \in FilePaths :
    /\ Begin("direct", p)
    /\ pc' = "connect"
    /\ report' = "none"
    /\ UNCHANGED reader

\* lines 253-262 for main, the plain return for a direct call
ReportOf(who, md, exc) ==
  IF exc # ExcNone THEN "raised"
  ELSE IF who = "direct" THEN "returned"
  ELSE IF md # EmptyMap THEN "metadata" ELSE "no metadata"

\* lines 38-39
Connect ==
  /\ pc = "connect"
  /\ \E F \in UpTo(ConnectSites, Budget) :
       LET r == ConnectToSolidworks(sw_app, F)
       IN /\ r.thrown = F
          /\ sw_app' = r.app
          /\ calls' = calls \o r.log
          /\ faults' = faults + Cardinality(F)
          /\ thrownSites' = thrownSites \cup F
          /\ raised' = (r.exc # ExcNone)
          /\ IF r.ok
             THEN pc' = "classify" /\ UNCHANGED report
             ELSE pc' = "done" /\ report' = ReportOf(entry, metadata, r.exc)
  /\ UNCHANGED <<entry, file_path, doc_type, metadata, sw_model, pending, hostOpen,
                 cleanups, opened, runs>>

\* lines 42-57
Classify ==
  /\ pc = "classify"
  /\ file_path' = Abspath(file_path)
  /\ doc_type' = DocTypeOf(Lower(Splitext(Abspath(file_path))))
  /\ IF doc_type' = 0
     THEN pc' = "cleanup" /\ pending' = After(OuterHandler, "ValueError")
     ELSE pc' = "open" /\ UNCHANGED pending
  /\ UNCHANGED <<entry, report, metadata, sw_app, sw_model, raised, calls, hostOpen,
                 cleanups, opened, thrownSites, faults, runs>>

\* lines 59-76
Open ==
  /\ pc = "open"
  /\ \E F \in UpTo(OpenSites, Budget), h \in {NoModel} \cup DocIds :
       LET r == OpenDocument(sw_model, file_path, doc_type, h, F)
       IN /\ r.thrown = F
          /\ (r.exc = "com_error" => h = NoModel)
          /\ sw_model' = r.model
          /\ calls' = calls \o r.log
          /\ faults' = faults + Cardinality(F)
          /\ thrownSites' = thrownSites \cup F
          /\ opened' = IF r.returned THEN h ELSE NoModel
          /\ hostOpen' = IF r.returned THEN hostOpen \cup {h} ELSE hostOpen
          /\ IF r.exc = ExcNone
             THEN pc' = "custom" /\ UNCHANGED pending
             ELSE pc' = "cleanup" /\ pending' = After(OuterHandler, r.exc)
  /\ UNCHANGED <<entry, report, file_path, doc_type, metadata, sw_app, raised, cleanups,
                 runs>>

\* One block of reads inside the outer try: r is the block's outcome when the
\* call sites of F throw; an exception leaving the block goes to the outer
\* handler of line 198 and on to the finally clause.
ReadStep(next, r, F) ==
  /\ r.thrown = F
  /\ metadata' = r.md
  /\ calls' = calls \o r.log
  /\ faults' = faults + Cardinality(F)
  /\ thrownSites' = thrownSites \cup F
  /\ IF r.exc = ExcNone
     THEN pc' = next /\ UNCHANGED pending
     ELSE pc' = "cleanup" /\ pending' = After(OuterHandler, r.exc)
  /\ UNCHANGED <<entry, report, file_path, doc_type, sw_app, sw_model, raised, hostOpen,
                 cleanups, opened, runs>>

\* lines 78-106
ReadCustomProperties ==
  /\ pc = "custom"
  /\ \E F \in UpTo(CustomSites(Documents[sw_model]), Budget) :
       ReadStep("summary", CustomProperties(Documents[sw_model], metadata, F), F)

\* lines 108-128
ReadSummaryInfo ==
  /\ pc = "summary"
  /\ \E F \in UpTo(SummarySites, Budget) :
       ReadStep("fileprops", SummaryInformation(Documents[sw_model], metadata, F), F)

\* lines 130-148
ReadFileProperties ==
  /\ pc = "fileprops"
  /\ \E F \in UpTo(FilePropsSites, Budget) :
       ReadStep("config", FileProperties(Documents[sw_model], metadata, F), F)

\* lines 150-169
ReadConfiguration ==
  /\ pc = "config"
  /\ \E F \in UpTo(ConfigSites, Budget) :
       ReadStep("material", ConfigurationInfo(Documents[sw_model], metadata, F), F)

\* lines 171-179
ReadMaterial ==
  /\ pc = "material"
  /\ \E F \in UpTo(MaterialSites, Budget) :
       ReadStep("mass", MaterialInfo(Documents[sw_model], doc_type, metadata, F), F)

\* lines 181-196
ReadMassProperties ==
  /\ pc = "mass"
  /\ \E F \in UpTo(MassSites, Budget) :
       ReadStep("cleanup", MassProperties(Documents[sw_model], metadata, F), F)

\* lines 201-204: the finally clause and the return
CleanupAndReturn ==
  /\ pc = "cleanup"
  /\ \E F \in UpTo(CleanupSites, Budget) :
       LET r == Cleanup(sw_model, sw_app, F)
           leaving == IF r.exc # ExcNone THEN r.exc ELSE pending
       IN /\ r.thrown = F
          /\ cleanups' = cleanups + 1
          /\ sw_model' = r.model
          /\ sw_app' = r.app
          /\ calls' = calls \o r.log
          /\ hostOpen' = hostOpen \ r.closed
          /\ faults' = faults + Cardinality(F)
          /\ thrownSites' = thrownSites \cup F
          /\ raised' = (leaving # ExcNone)
          /\ report' = ReportOf(entry, metadata, leaving)
  /\ pending' = ExcNone
  /\ pc' = "done"
  /\ UNCHANGED <<entry, file_path, doc_type, metadata, opened, runs>>

Next ==
  \/ Main
  \/ ReadMetadata
  \/ Connect
  \/ Classify
  \/ Open
  \/ ReadCustomProperties
  \/ ReadSummaryInfo
  \/ ReadFileProperties
  \/ ReadConfiguration
  \/ ReadMaterial
  \/ ReadMassProperties
  \/ CleanupAndReturn

Spec == Init /\ [][Next]_vars

\* ============================================================ properties
\* read_metadata was called and has come back to its caller
Returned == pc = "done" /\ report \in {"returned", "metadata", "no metadata", "raised"}

\* the document stayed open long enough for the reads to begin
DocumentOpened == opened # NoModel

OpenCalls == SelectSeq(calls, LAMBDA c : c.by = "open")
ReadCalls == SelectSeq(calls, LAMBDA c : c.by = "read")

\* lines 78-196 with no call throwing
FailureFree(d, t) ==
  LET a == CustomProperties(d, EmptyMap, {}).md
      b == SummaryInformation(d, a, {}).md
      c == FileProperties(d, b, {}).md
      e == ConfigurationInfo(d, c, {}).md
      f == MaterialInfo(d, t, e, {}).md
  IN MassProperties(d, f, {}).md

\* the keys the read behind a call site writes
KeysOfRead(site, d) ==
  IF site \in {"CustomPropertyManager", "GetNames"}
  THEN {CustomKey(n) : n \in SeqToSet(PropNames(d))}
  ELSE IF site \in FilePropsSites THEN {"FileName", "FilePath"}
  ELSE IF site \in ConfigSites THEN {"ActiveConfiguration", "ConfigurationCount"}
  ELSE IF site \in MaterialSites THEN {"MaterialDensity"}
  ELSE IF site \in MassSites THEN {"Mass", "Volume", "SurfaceArea"}
  ELSE {CustomKey(n) : n \in {m \in SeqToSet(PropNames(d)) : GetSite(m) = site}}
       \cup {SummaryKey(SummarySlots[i]) :
               i \in {j \in 1 .. Len(SummarySlots) : SummarySite(SummarySlots[j]) = site}}

KeysOfFailedReads(d) == UNION {KeysOfRead(site, d) : site \in thrownSites}

\* the key custom properties of the specification
KeyProperties == {"Weight", "Material", "Thickness", "Description"}

\* C1: every call of read_metadata that has returned ran cleanup exactly once,
\* whatever happened on the way (also when the host could not be reached), and
\* no ExitApp call was issued.
C1_CleanupExactlyOnce ==
  Returned =>
    /\ cleanups = 1
    /\ \A i \in 1 .. Len(calls) : calls[i].op # "ExitApp"

\* C2: while the path's extension is outside the allow-list, no call has
\* reached the host, for an entry through main and for a direct call alike.
C2_NoHostCallForUnsupportedType ==
  (entry \in {"main", "direct"} /\ Lower(Splitext(file_path)) \notin valid_extensions)
    => calls = <<>>

\* C3: once read_metadata has returned from a run that opened the document, the
\* four key custom properties are keys of the result, with the empty string for
\* those the document does not define.
C3_KeyPropertiesAlwaysPresent ==
  (Returned /\ DocumentOpened) =>
    \A n \in KeyProperties :
      /\ CustomKey(n) \in DOMAIN metadata
      /\ (~InSeq(n, Documents[opened].names) => metadata[CustomKey(n)] = "")

\* C4: once the custom property step is over, every enumerated property whose
\* read gave a raw and an evaluated value is stored with the evaluated value,
\* and no property is stored as the empty string.
C4_EvaluatedValuePreferred ==
  (DocumentOpened /\ pc \in {"summary", "fileprops", "config", "material", "mass",
                            "cleanup", "done"}) =>
    LET d == Documents[opened]
    IN \A n \in SeqToSet(PropNames(d)) :
         (CustomKey(n) \in DOMAIN metadata) =>
           /\ metadata[CustomKey(n)] # ""
           /\ (HostGet(d, n).t = "tuple" /\ Len(HostGet(d, n).items) = 2
                 => metadata[CustomKey(n)] = HostGet(d, n).items[2])

\* C5: no exception ever leaves read_metadata, whichever host calls throw.
C5_NeverRaises == ~raised /\ report # "raised"

\* witness of C5: read_metadata has returned although a read threw and the
\* close call of cleanup threw as well
C5_Witness ==
  /\ Returned
  /\ ~raised
  /\ DocumentOpened
  /\ "CloseDoc" \in thrownSites
  /\ thrownSites \cap (SummarySites \cup MassSites \cup ConfigSites) # {}

\* C6: once the document is open, the result holds nothing a failure-free run
\* would not hold, and every key of the failure-free run that is missing from
\* it belongs to a read that failed.
C6_FailuresAreIsolated ==
  (Returned /\ DocumentOpened) =>
    LET d == Documents[opened]
        ff == FailureFree(d, doc_type)
    IN /\ \A k \in DOMAIN metadata : k \in DOMAIN ff /\ metadata[k] = ff[k]
       /\ \A k \in DOMAIN ff \ DOMAIN metadata : k \in KeysOfFailedReads(d)

\* witness of C6: a run with a failed read lost that read's keys and kept others
C6_Witness ==
  /\ Returned
  /\ DocumentOpened
  /\ SummarySite(6) \in thrownSites
  /\ "Summary_RevisionNumber" \notin DOMAIN metadata
  /\ "Summary_Title" \in DOMAIN metadata
  /\ "Mass" \in DOMAIN metadata

\* C7: a part whose material sequence starts with d ends with MaterialDensity =
\* str(d); an assembly or drawing never gets the key nor the material read.
C7_MaterialDensityOnlyForParts ==
  (Returned /\ DocumentOpened) =>
    LET d == Documents[opened]
    IN IF IsPart(doc_type)
       THEN ("MaterialPropertyValues" \notin thrownSites /\ Len(d.material) > 0)
              => /\ "MaterialDensity" \in DOMAIN metadata
                 /\ metadata["MaterialDensity"] = StrFloat(d.material[1])
       ELSE /\ "MaterialDensity" \notin DOMAIN metadata
            /\ \A i \in 1 .. Len(calls) : calls[i].op # "MaterialPropertyValues"

\* C8: within one run of read_metadata every step keeps each key already in
\* the map, with its value.
C8_MonotoneAssembly ==
  [][pc \notin {"idle", "done"} =>
       \A k \in DOMAIN metadata : k \in DOMAIN metadata' /\ metadata'[k] = metadata[k]]_vars

\* witness of C8: a document defining a custom property called FileName has
\* been through the file-identity step
C8_Witness ==
  /\ "Custom_FileName" \in DOMAIN metadata
  /\ "FileName" \in DOMAIN metadata
  /\ "Mass" \in DOMAIN metadata

\* C9: the secondary open call is issued exactly when the primary one threw,
\* with the primary's path and type code; at most two open calls are issued;
\* and a run whose open attempt gave no handle issues no read and returns the
\* empty map.
C9_OneShotOpenFallback ==
  /\ Len(OpenCalls) <= 2
  /\ (Len(OpenCalls) >= 1 => OpenCalls[1].op = "OpenDoc")
  /\ (Len(OpenCalls) = 2 <=> "OpenDoc" \in thrownSites)
  /\ (Len(OpenCalls) = 2 =>
        /\ OpenCalls[2].op = "OpenDoc6"
        /\ OpenCalls[2].path = OpenCalls[1].path
        /\ OpenCalls[2].type = OpenCalls[1].type)
  /\ (Len(OpenCalls) >= 1 /\ ~DocumentOpened) => (ReadCalls = <<>> /\ metadata = EmptyMap)

\* witness of C9: the primary open threw, the secondary gave no handle and
\* read_metadata returned
C9_Witness ==
  /\ Returned
  /\ "OpenDoc" \in thrownSites
  /\ Len(OpenCalls) = 2
  /\ ~DocumentOpened
  /\ metadata = EmptyMap

\* C10: when read_metadata returns from a run that opened a document, a
\* CloseDoc call with that document's title has been issued and the document is
\* no longer open in the host.
C10_DocumentClosedByTitle ==
  (Returned /\ DocumentOpened) =>
    /\ \E i \in 1 .. Len(calls) :
         calls[i].op = "CloseDoc" /\ calls[i].title = Scalar(Documents[opened].title)
    /\ opened \notin hostOpen

====
